---- MODULE Spec2Model ----
(***************************************************************************)
(* pipelines/exercise.ipynb: a notebook of two code cells run by one       *)
(* single-threaded kernel.  Cell 1 reads ../data/penguins.csv into df and  *)
(* prints it.  Cell 2 recodes df['sex'] and df['species'] in place, splits *)
(* the rows 70/30 with random_state=42, fits a logistic regression of the  *)
(* species code on the sex code, predicts the held-out rows, scores the    *)
(* predictions and prints a conclusion.                                    *)
(*                                                                         *)
(* The state is the data file, the kernel's namespace and the text printed *)
(* so far.  The kernel runs one cell at a time, to its end or to the       *)
(* statement that raises; an action is one execution of a cell with one    *)
(* outcome, and keeps what the statements before a raise have assigned.    *)
(***************************************************************************)
EXTENDS Integers, Sequences, FiniteSets, TLC

\* ---------------------------------------------------------------- bounds
MaxRows == 4        \* rows of the data file
MaxRunAll == 2      \* runs of the whole notebook in one kernel session
MaxExec == 3        \* cell executions in a session of single-cell executions
MaxEdits == 1       \* rewrites of the data file in one session
MaxRowsEdited == 4  \* rows of a data file that is rewritten

\* ------------------------------------------------------------- the state
VARIABLES
    csv,              \* ../data/penguins.csv, its data lines
    ns,               \* the names bound in the kernel's namespace
    df,               \* the DataFrame
    X, y,             \* the feature and the target, each row with its label
    X_train, X_test, y_train, y_test,
    model,            \* the fitted LogisticRegression
    y_pred,
    accuracy,
    execution_count,  \* the kernel's execution counter
    stdout,           \* everything printed, in order
    optimum,          \* the solver's answer for each training set fitted so far
    loaded,           \* history: the file as read_csv last read it
    loaded_at,        \* history: the execution that last ran read_csv
    encodings,        \* history: recodings of df since it was read
    stopped,          \* history: where the last execution of cell 2 ended
    runs,             \* history: the completed executions of cell 2
    edits             \* history: rewrites of the file

namespace == <<ns, df, X, y, X_train, X_test, y_train, y_test, model, y_pred, accuracy>>
fitted == <<X_train, X_test, y_train, y_test, model, y_pred, accuracy>>
history == <<loaded, loaded_at, encodings, stopped, runs, edits>>
vars == <<csv, namespace, execution_count, stdout, optimum, history>>

\* ------------------------------------------------------------- the data
Species == {"Adelie", "Chinstrap", "Gentoo"}
Islands == {"Biscoe", "Dream"}
Sexes == {"FEMALE", "MALE"}
Empty == ""         \* an empty csv field

\* The strings of the file in the order Python compares them (code points).
Lexicographic == <<"Adelie", "Biscoe", "Chinstrap", "Dream", "FEMALE", "Gentoo", "MALE">>

StrRank(s) == CHOOSE i \in 1..Len(Lexicographic) : Lexicographic[i] = s

Range(f) == {f[i] : i \in DOMAIN f}

\* A function on 1..n as the sequence it is.
AsSeq(f) == f \o <<>>

\* A cell of the DataFrame: an object (string), an integer or NaN.
Str(s) == [kind |-> "str", s |-> s, i |-> 0]
Int_(n) == [kind |-> "int", s |-> "", i |-> n]
NaN == [kind |-> "nan", s |-> "", i |-> 0]

\* A line of the file as first written; a rewrite of the file may bring in the
\* third species and the other island.
FileRows == [species : {"Adelie", "Gentoo"}, island : {"Biscoe"}, sex : Sexes \cup {Empty}]

RECURSIVE SeqsUpTo(_, _)
SeqsUpTo(S, n) ==
    IF n = 0 THEN {<<>>}
    ELSE LET shorter == SeqsUpTo(S, n - 1)
         IN  shorter \cup {Append(t, r) : t \in {u \in shorter : Len(u) = n - 1}, r \in S}

Files == SeqsUpTo(FileRows, MaxRows)

\* ------------------------------------------------------------- pandas
\* pd.read_csv: an empty field is a missing value, any other field of these
\* columns is kept as the string it is.
parse(field) == IF field = Empty THEN NaN ELSE Str(field)

read_csv(file) ==
    AsSeq([r \in 1..Len(file) |->
        [species |-> parse(file[r].species),
         island |-> parse(file[r].island),
         sex |-> parse(file[r].sex)]])

\* The sort key of a non-missing cell within its column.
Key(c) == IF c.kind = "str" THEN StrRank(c.s) ELSE c.i

\* astype('category'): the categories are the distinct non-missing values.
categories(col) == {c \in Range(col) : c.kind # "nan"}

\* The code of NaN when NaN is coded like a value, after the categories.
codes_nan_as_category(col) ==
    AsSeq([r \in DOMAIN col |->
        IF col[r].kind = "nan" THEN Int_(Cardinality(categories(col)))
        ELSE Int_(Cardinality({d \in categories(col) : Key(d) < Key(col[r])}))])

\* .cat.codes: the position of the value among the sorted categories, from 0;
\* -1 for a missing value.
codes(col) ==
    AsSeq([r \in DOMAIN col |->
        IF col[r].kind = "nan" THEN Int_(-1)
        ELSE Int_(Cardinality({d \in categories(col) : Key(d) < Key(col[r])}))])

column(frame, name) == AsSeq([r \in DOMAIN frame |-> frame[r][name]])

\* df[name] = values, in place.
assign(frame, name, values) ==
    AsSeq([r \in DOMAIN frame |-> [frame[r] EXCEPT ![name] = values[r]]])

\* display.max_rows and display.min_rows: a frame of more than max_rows rows
\* prints as its first and last min_rows/2 rows around an ellipsis.
max_rows == 60
min_rows == 10

\* The rows print(df) shows, each with its index label (from 0).
to_string(frame) ==
    LET n == Len(frame)
        half == min_rows \div 2
        shown == IF n > max_rows THEN (1..half) \cup ((n - half + 1)..n) ELSE 1..n
        at(k) == IF n > max_rows /\ k > half THEN n - min_rows + k ELSE k
    IN  AsSeq([k \in 1..Cardinality(shown) |-> [index |-> at(k) - 1, row |-> frame[at(k)]]])

\* ------------------------------------------------------------- sklearn
test_size_tenths == 3       \* test_size=0.3
random_state == 42

\* floor(test_size * n_samples)
n_test_floor(n_samples) == (test_size_tenths * n_samples) \div 10

\* ceil(test_size * n_samples), in tenths.  (The float product 0.3 * n never
\* rounds past the integer above it, so the float ceiling is the exact one.)
n_test(n_samples) == (test_size_tenths * n_samples + 9) \div 10

\* permutation(n) of the global generator, never reseeded: its state moves on
\* with every execution.
permutation_unseeded(n) == AsSeq([k \in 1..n |-> (k - 1 + execution_count) % n])

\* RandomState(42).permutation(n): the Mersenne Twister seeded with
\* init_genrand(42), then the Fisher-Yates shuffle of arange(n) from the last
\* position down, each draw masked and rejected until it is <= i.  Row labels
\* from 0.
permutation(n) ==
    CASE n = 0 -> <<>>
      [] n = 1 -> <<0>>
      [] n = 2 -> <<1, 0>>
      [] n = 3 -> <<0, 1, 2>>
      [] n = 4 -> <<1, 3, 0, 2>>
      [] n = 5 -> <<1, 4, 2, 0, 3>>
      [] n = 6 -> <<0, 1, 5, 2, 4, 3>>
      [] n = 61 -> <<0, 5, 46, 31, 13, 55, 34, 49, 12, 40, 33, 59, 16, 3, 53,
                     17, 8, 6, 41, 4, 44, 19, 47, 52, 25, 57, 15, 58, 27, 9,
                     30, 36, 26, 24, 43, 11, 32, 54, 56, 37, 29, 45, 1, 21, 2,
                     48, 39, 35, 23, 50, 10, 22, 18, 60, 20, 7, 42, 14, 28,
                     51, 38>>

\* _safe_indexing: the rows of a labelled column at the given labels, in the
\* order of the labels.
take(labelled, labels) == AsSeq([k \in 1..Len(labels) |-> labelled[labels[k] + 1]])

\* The training labels with the one right after the test labels left out.
ind_train_short(n) == SubSeq(permutation(n), n_test(n) + 2, n)

\* ShuffleSplit: the first n_test labels of the permutation are the test rows,
\* the next n_train the training rows.
ind_test(n) == SubSeq(permutation(n), 1, n_test(n))
ind_train(n) == SubSeq(permutation(n), n_test(n) + 1, n)

values(labelled) == AsSeq([k \in 1..Len(labelled) |-> labelled[k].v])
labels(labelled) == AsSeq([k \in 1..Len(labelled) |-> labelled[k].index])

\* np.unique: the distinct values, ascending.
RECURSIVE sorted(_)
sorted(S) ==
    IF S = {} THEN <<>>
    ELSE LET m == CHOOSE x \in S : \A z \in S : x <= z
         IN  <<m>> \o sorted(S \ {m})

unique(vals) == sorted(Range(vals))

\* The weights a fit may return.  The optimum of the regularised loss is a
\* real vector the solver computes from the training rows; here it is one of
\* a grid of slopes and intercepts whose lines cut the codes -1..2 at every
\* place a line can, the first class being the reference.
Slopes == {-2, 2}
Intercepts == {-3, -1, 1, 3}

Reference == [coef |-> 0, intercept |-> 0]

Weights(classes) ==
    {w \in [1..Len(classes) -> [coef : Slopes, intercept : Intercepts] \cup {Reference}] :
        \A k \in 1..Len(classes) : w[k] = Reference <=> k = 1}

\* decision_function for one row and one class.
decision(m, k, x) == m.weights[k].coef * x + m.weights[k].intercept

\* np.argmax: the first class of the highest score.
argmax(m, x) ==
    CHOOSE k \in 1..Len(m.classes_) :
        /\ \A j \in 1..Len(m.classes_) : decision(m, j, x) <= decision(m, k, x)
        /\ \A j \in 1..(k - 1) : decision(m, j, x) < decision(m, k, x)

\* A predict that also reads the row's label.
predict_by_label(m, rows) ==
    AsSeq([k \in 1..Len(rows) |-> m.classes_[argmax(m, rows[k].v + rows[k].index)]])

\* model.predict: one class per row, from the row's feature alone.
predict(m, rows) == AsSeq([k \in 1..Len(rows) |-> m.classes_[argmax(m, rows[k].v)]])

\* The matches of each prediction with the label of the row before it.
accuracy_score_shifted(y_true, pred) ==
    [num |-> Cardinality({k \in 1..Len(pred) :
                            y_true[IF k = 1 THEN Len(pred) ELSE k - 1].v = pred[k]}),
     den |-> Len(pred)]

\* accuracy_score(y_true, y_pred): matches over rows, compared position by
\* position.
accuracy_score(y_true, pred) ==
    [num |-> Cardinality({k \in 1..Len(pred) : y_true[k].v = pred[k]}),
     den |-> Len(pred)]

\* accuracy >= 0.5
reaches_half(a) == 2 * a.num >= a.den

\* accuracy > 0.5
exceeds_half(a) == 2 * a.num > a.den

NoModel == [classes_ |-> <<>>, weights |-> <<>>]
NoAccuracy == [num |-> 0, den |-> 0]

\* An entry of the output, with the execution that printed it.
Item(kind, rows, acc, text) ==
    [exec |-> execution_count + 1, kind |-> kind, rows |-> rows, acc |-> acc, text |-> text]

\* df['sex'] = ...cat.codes; df['species'] = ...cat.codes
recode(frame) ==
    LET sexed == assign(frame, "sex", codes(column(frame, "sex")))
    IN  assign(sexed, "species", codes(column(sexed, "species")))

\* print(df) moved below the recoding.
print_frame_recoded(frame) == Item("table", to_string(recode(frame)), NoAccuracy, "")

\* print(df)
print_frame(frame) == Item("table", to_string(frame), NoAccuracy, "")

\* The traceback of an uncaught exception.
traceback(name) == Item("error", <<>>, NoAccuracy, name)

HAS == "The sex column has some predictive power for the species column."
HAS_NOT == "The sex column does not have predictive power for the species column."

\* df[[name]] / df[name]: the column's integers, each with its row label.
select(frame, name) == AsSeq([r \in DOMAIN frame |-> [index |-> r - 1, v |-> frame[r][name].i]])

\* train_test_split(X, y, test_size=0.3, random_state=42)
train_test_split(Xs, ys) ==
    [X_train |-> take(Xs, ind_train(Len(Xs))),
     X_test |-> take(Xs, ind_test(Len(Xs))),
     y_train |-> take(ys, ind_train(Len(ys))),
     y_test |-> take(ys, ind_test(Len(ys)))]

\* The training set the split of n rows would leave.
n_train(n_samples) == n_samples - n_test(n_samples)

\* The solver's answers for a training set: the one it gave before, or any of
\* the grid the first time.
key_of(Xs, ys) == <<values(Xs), values(ys)>>

solutions(Xs, ys) ==
    IF \E e \in optimum : e.key = key_of(Xs, ys)
    THEN {e.weights : e \in {o \in optimum : o.key = key_of(Xs, ys)}}
    ELSE Weights(unique(values(ys)))

\* The conclusion printed for an accuracy.
conclusion(a) == IF exceeds_half(a) THEN HAS ELSE HAS_NOT

Start(files) ==
    /\ csv \in files
    /\ ns = {}
    /\ df = <<>>
    /\ X = <<>> /\ y = <<>>
    /\ X_train = <<>> /\ X_test = <<>> /\ y_train = <<>> /\ y_test = <<>>
    /\ model = NoModel
    /\ y_pred = <<>>
    /\ accuracy = NoAccuracy
    /\ execution_count = 0
    /\ stdout = <<>>
    /\ optimum = {}
    /\ loaded = <<>>
    /\ loaded_at = 0
    /\ encodings = 0
    /\ stopped = "none"
    /\ runs = <<>>
    /\ edits = 0

Init == Start(Files)

\* ------------------------------------------------------------- cell 1
\* df = pd.read_csv('../data/penguins.csv'); print(df)
Cell1 ==
    /\ execution_count' = execution_count + 1
    /\ df' = read_csv(csv)
    /\ ns' = ns \cup {"df"}
    /\ stdout' = Append(stdout, print_frame(df'))
    /\ loaded' = csv
    /\ loaded_at' = execution_count + 1
    /\ encodings' = 0
    /\ UNCHANGED <<csv, X, y, fitted, optimum, stopped, runs, edits>>

\* ------------------------------------------------------------- cell 2
\* df['sex'] = ... with no df in the namespace: NameError at the first
\* statement.
Cell2NameError ==
    /\ "df" \notin ns
    /\ execution_count' = execution_count + 1
    /\ stdout' = Append(stdout, traceback("NameError"))
    /\ stopped' = "NameError"
    /\ UNCHANGED <<csv, namespace, optimum, loaded, loaded_at, encodings, runs, edits>>

\* The recoding and X, y are done; train_test_split raises ValueError for an
\* empty training set.
Cell2SplitError ==
    /\ "df" \in ns
    /\ execution_count' = execution_count + 1
    /\ df' = recode(df)
    /\ X' = select(df', "sex")
    /\ y' = select(df', "species")
    /\ n_train(Len(X')) = 0
    /\ ns' = ns \cup {"X", "y"}
    /\ encodings' = encodings + 1
    /\ stdout' = Append(stdout, traceback("ValueError"))
    /\ stopped' = "split"
    /\ UNCHANGED <<csv, fitted, optimum, loaded, loaded_at, runs, edits>>

\* The recoding, X, y and the split are done; model.fit raises ValueError for
\* a y_train of one class.
Cell2FitError ==
    /\ "df" \in ns
    /\ execution_count' = execution_count + 1
    /\ df' = recode(df)
    /\ X' = select(df', "sex")
    /\ y' = select(df', "species")
    /\ n_train(Len(X')) > 0
    /\ LET parts == train_test_split(X', y')
       IN  /\ X_train' = parts.X_train /\ X_test' = parts.X_test
           /\ y_train' = parts.y_train /\ y_test' = parts.y_test
    /\ Len(unique(values(y_train'))) < 2
    /\ ns' = ns \cup {"X", "y", "X_train", "X_test", "y_train", "y_test"}
    /\ encodings' = encodings + 1
    /\ stdout' = Append(stdout, traceback("ValueError"))
    /\ stopped' = "fit"
    /\ UNCHANGED <<csv, model, y_pred, accuracy, optimum, loaded, loaded_at, runs, edits>>

\* The whole cell: recode, X and y, split, fit, predict, score, print the
\* accuracy, print the conclusion.
Cell2 ==
    /\ "df" \in ns
    /\ execution_count' = execution_count + 1
    /\ df' = recode(df)
    /\ X' = select(df', "sex")
    /\ y' = select(df', "species")
    /\ n_train(Len(X')) > 0
    /\ LET parts == train_test_split(X', y')
       IN  /\ X_train' = parts.X_train /\ X_test' = parts.X_test
           /\ y_train' = parts.y_train /\ y_test' = parts.y_test
    /\ Len(unique(values(y_train'))) >= 2
    /\ \E w \in solutions(X_train', y_train') :
          /\ model' = [classes_ |-> unique(values(y_train')), weights |-> w]
          /\ optimum' = optimum \cup {[key |-> key_of(X_train', y_train'), weights |-> w]}
    /\ y_pred' = predict(model', X_test')
    /\ accuracy' = accuracy_score(y_test', y_pred')
    /\ stdout' = stdout \o
          <<Item("accuracy", <<>>, accuracy', "Accuracy: "),
            Item("conclusion", <<>>, NoAccuracy, conclusion(accuracy'))>>
    /\ ns' = ns \cup {"X", "y", "X_train", "X_test", "y_train", "y_test",
                      "model", "y_pred", "accuracy"}
    /\ encodings' = encodings + 1
    /\ stopped' = "end"
    /\ runs' = Append(runs,
          [exec |-> execution_count',
           complete |-> encodings = 0 /\ loaded_at = execution_count,
           file |-> loaded,
           train |-> labels(X_train'),
           test |-> labels(X_test'),
           model |-> model',
           y_pred |-> y_pred',
           accuracy |-> accuracy',
           conclusion |-> conclusion(accuracy')])
    /\ UNCHANGED <<csv, loaded, loaded_at, edits>>

\* ------------------------------------------------------------- the file
\* The cell executed last: 0 before any.
LastCell ==
    IF execution_count = 0 THEN 0
    ELSE IF loaded_at = execution_count THEN 1 ELSE 2

\* After a run of the notebook the data file is rewritten with one field
\* changed.
EditFile ==
    /\ LastCell = 2
    /\ edits < MaxEdits
    /\ \E r \in 1..Len(csv) :
          \/ \E v \in Species \ {csv[r].species} : csv' = [csv EXCEPT ![r].species = v]
          \/ \E v \in Islands \ {csv[r].island} : csv' = [csv EXCEPT ![r].island = v]
          \/ \E v \in (Sexes \cup {Empty}) \ {csv[r].sex} : csv' = [csv EXCEPT ![r].sex = v]
    /\ edits' = edits + 1
    /\ UNCHANGED <<namespace, execution_count, stdout, optimum, loaded, loaded_at,
                   encodings, stopped, runs>>

\* ------------------------------------------------------------- sessions
\* "Run All": cell 1, then cell 2, each time from the top.
RunAllCell1 ==
    /\ LastCell # 1
    /\ execution_count < 2 * MaxRunAll
    /\ Cell1

RunAllCell2SplitError ==
    /\ LastCell = 1
    /\ Cell2SplitError

RunAllCell2FitError ==
    /\ LastCell = 1
    /\ Cell2FitError

RunAllCell2 ==
    /\ LastCell = 1
    /\ Cell2

Next == RunAllCell1 \/ RunAllCell2SplitError \/ RunAllCell2FitError \/ RunAllCell2

Spec == Init /\ [][Next]_vars

\* Sessions in which the data file changes between two runs of the notebook.
NextInputs == Next \/ EditFile

InitInputs == Start(SeqsUpTo(FileRows, MaxRowsEdited))

SpecInputs == InitInputs /\ [][NextInputs]_vars

\* Sessions in which the user executes single cells in any order.
ExecuteCell1 ==
    /\ execution_count < MaxExec
    /\ Cell1

ExecuteCell2NameError ==
    /\ execution_count < MaxExec
    /\ Cell2NameError

ExecuteCell2SplitError ==
    /\ execution_count < MaxExec
    /\ Cell2SplitError

ExecuteCell2FitError ==
    /\ execution_count < MaxExec
    /\ Cell2FitError

ExecuteCell2 ==
    /\ execution_count < MaxExec
    /\ Cell2

NextCells ==
    \/ ExecuteCell1
    \/ ExecuteCell2NameError
    \/ ExecuteCell2SplitError
    \/ ExecuteCell2FitError
    \/ ExecuteCell2

SpecCells == Init /\ [][NextCells]_vars

\* Sessions on a file longer than the display shows in full.
WideRow == [species |-> "Adelie", island |-> "Biscoe", sex |-> "MALE"]

WideFiles ==
    {[r \in 1..(max_rows + 1) |-> IF r <= Len(head) THEN head[r] ELSE WideRow] :
        head \in {h \in SeqsUpTo(FileRows, 2) : Len(h) = 2}}

InitWide == Start(Files \cup WideFiles)

SpecWide == InitWide /\ [][Next]_vars

\* ------------------------------------------------------------- claims
\* The last execution was of cell 2 and got past the split / to its end.
after_split == LastCell = 2 /\ stopped \in {"fit", "end"}
after_score == LastCell = 2 /\ stopped = "end"

\* The outcome of a completed execution of cell 2.
Outcome(r) == <<r.train, r.test, r.y_pred, r.accuracy, r.conclusion>>

\* C1: two complete runs of the notebook on the same file assign every row to
\* the same side of the split and end with the same predictions, the same
\* accuracy and the same conclusion.
C1_Deterministic ==
    \A i, j \in 1..Len(runs) :
        (runs[i].complete /\ runs[j].complete /\ runs[i].file = runs[j].file)
            => Outcome(runs[i]) = Outcome(runs[j])

C1_Witness ==
    /\ Len(runs) = 2
    /\ runs[1].complete /\ runs[2].complete
    /\ runs[1].file = runs[2].file
    /\ Len(runs[1].file) = MaxRows

\* C2: the conclusion printed after an accuracy of c correct out of t is the
\* "has some predictive power" sentence exactly when 2c > t and the "does not
\* have" sentence otherwise, one sentence per run; 50 of 104 gives "does not
\* have".
C2_Threshold ==
    /\ \A p \in 1..Len(stdout) :
          stdout[p].kind = "conclusion" =>
              /\ p > 1
              /\ stdout[p - 1].kind = "accuracy"
              /\ stdout[p - 1].exec = stdout[p].exec
              /\ stdout[p].text \in {HAS, HAS_NOT}
              /\ stdout[p].text = HAS <=> 2 * stdout[p - 1].acc.num > stdout[p - 1].acc.den
    /\ \A i \in 1..Len(runs) :
          Cardinality({p \in 1..Len(stdout) :
              stdout[p].kind = "conclusion" /\ stdout[p].exec = runs[i].exec}) = 1
    /\ conclusion([num |-> 50, den |-> 104]) = HAS_NOT

C2_Witness ==
    \E p \in 2..Len(stdout) :
        /\ stdout[p].kind = "conclusion"
        /\ stdout[p].text = HAS_NOT
        /\ stdout[p - 1].acc.den > 0
        /\ 2 * stdout[p - 1].acc.num = stdout[p - 1].acc.den

\* C3: the accuracy is the number of test rows whose prediction equals that
\* row's own species code in the table, over the number of test rows; every
\* test row counts once, no training row counts, and 0 <= accuracy <= 1.
C3_Accuracy ==
    after_score =>
        /\ accuracy.den = Cardinality(Range(labels(X_test)))
        /\ accuracy.den = Len(y_pred)
        /\ accuracy.num =
              Cardinality({k \in 1..Len(X_test) :
                              y_pred[k] = df[X_test[k].index + 1].species.i})
        /\ 0 <= accuracy.num /\ accuracy.num <= accuracy.den
        /\ Range(labels(X_test)) \cap Range(labels(X_train)) = {}

C3_Witness ==
    /\ after_score
    /\ accuracy.den = 2
    /\ accuracy.num = 1
    /\ y_pred[1] = df[X_test[1].index + 1].species.i
    /\ y_pred[2] # df[X_test[2].index + 1].species.i

\* C4: after the split every row of the table is in exactly one of the training
\* and the test set, none dropped or repeated, and the feature and the label of
\* a row are at the same place of the same side.
Aligned(Xs, ys) ==
    /\ labels(Xs) = labels(ys)
    /\ \A k \in 1..Len(Xs) :
          /\ Xs[k].v = df[Xs[k].index + 1].sex.i
          /\ ys[k].v = df[ys[k].index + 1].species.i

C4_Partition ==
    after_split =>
        /\ Range(labels(X_train)) \cup Range(labels(X_test)) = 0..(Len(df) - 1)
        /\ Range(labels(X_train)) \cap Range(labels(X_test)) = {}
        /\ Len(X_train) + Len(X_test) = Len(df)
        /\ Len(df) = Len(loaded)
        /\ Aligned(X_train, y_train)
        /\ Aligned(X_test, y_test)

C4_Witness ==
    /\ after_split
    /\ Len(df) = MaxRows
    /\ \E r \in 1..Len(loaded) : loaded[r].sex = Empty
    /\ \E k \in 1..Len(X_test) : X_test[k].v = -1
    /\ \E k \in 1..Len(X_train) : X_train[k].v = -1

\* C5: of n rows the test set gets ceil(0.3 n), the least t with 10 t >= 3 n,
\* and the training set the other n - t; of 344 rows, 104 and 240.
Ceil3Tenths(n) == CHOOSE t \in 0..n : 10 * t >= 3 * n /\ \A u \in 0..(t - 1) : 10 * u < 3 * n

C5_Sizes ==
    /\ after_split =>
          /\ Len(X_test) = Ceil3Tenths(Len(df))
          /\ Len(y_test) = Len(X_test)
          /\ Len(X_train) = Len(df) - Ceil3Tenths(Len(df))
          /\ Len(y_train) = Len(X_train)
    /\ n_test(344) = 104
    /\ 344 - n_test(344) = 240

C5_Witness ==
    /\ after_split
    /\ Len(df) = 4
    /\ Len(X_test) = 2
    /\ Len(X_train) = 2

\* C6: once a freshly read table is recoded, in each of the sex and the species
\* column a missing value has the code -1, a value has a code in 0..k-1 for k
\* the number of distinct values of the column, two rows have the same code
\* exactly when they have the same value or both none, and the table has the
\* rows it had.
Coded(name) ==
    LET original == [r \in 1..Len(loaded) |-> loaded[r][name]]
        k == Cardinality(Range(original) \ {Empty})
    IN  /\ Len(df) = Len(loaded)
        /\ \A r \in 1..Len(df) :
              /\ df[r][name].kind = "int"
              /\ original[r] = Empty <=> df[r][name].i = -1
              /\ original[r] # Empty => df[r][name].i \in 0..(k - 1)
        /\ \A a, b \in 1..Len(df) :
              df[a][name].i = df[b][name].i <=> original[a] = original[b]

C6_Codes ==
    encodings = 1 => (Coded("sex") /\ Coded("species"))

C6_Witness ==
    /\ encodings = 1
    /\ \E a, b, c \in 1..Len(df) :
          /\ loaded[a].sex = Empty /\ loaded[b].sex = "FEMALE" /\ loaded[c].sex = "MALE"
          /\ df[a].sex.i = -1 /\ df[b].sex.i = 0 /\ df[c].sex.i = 1
    /\ \E a, b \in 1..Len(df) : df[a].species.i = 0 /\ df[b].species.i = 1

\* What a run of the notebook printed: the output of cell 1 and of cell 2.
Printed(r) == SelectSeq(stdout, LAMBDA it : it.exec \in {r.exec - 1, r.exec})

PrintedInOrder(r) ==
    /\ Len(Printed(r)) = 3
    /\ Printed(r)[1].kind = "table" /\ Printed(r)[1].exec = r.exec - 1
    /\ Printed(r)[2].kind = "accuracy" /\ Printed(r)[2].acc = r.accuracy
    /\ Printed(r)[3].kind = "conclusion" /\ Printed(r)[3].text = r.conclusion

\* The printed rows are rows of the file as read, values as in the file.
ShowsOriginal(r) ==
    \A k \in 1..Len(Printed(r)[1].rows) :
        LET shown == Printed(r)[1].rows[k]
        IN  /\ shown.index \in 0..(Len(r.file) - 1)
            /\ shown.row = read_csv(r.file)[shown.index + 1]
            /\ k > 1 => Printed(r)[1].rows[k - 1].index < shown.index

ShownLabels(r) == {Printed(r)[1].rows[k].index : k \in 1..Len(Printed(r)[1].rows)}

\* C7 as stated: a complete run prints the whole table, then the accuracy, then
\* the conclusion, each once and in that order, the table with the values of
\* the file.
C7_FullTable ==
    \A i \in 1..Len(runs) :
        runs[i].complete =>
            /\ PrintedInOrder(runs[i])
            /\ ShowsOriginal(runs[i])
            /\ ShownLabels(runs[i]) = 0..(Len(runs[i].file) - 1)

\* C7, amended: a complete run prints the table, then the accuracy, then the
\* conclusion, each once and in that order, the table with the values of the
\* file; the table is printed whole when it has at most 60 rows, and as its
\* first 5 and last 5 rows when it has more.
C7_Order ==
    \A i \in 1..Len(runs) :
        runs[i].complete =>
            LET n == Len(runs[i].file)
            IN  /\ PrintedInOrder(runs[i])
                /\ ShowsOriginal(runs[i])
                /\ n <= 60 => ShownLabels(runs[i]) = 0..(n - 1)
                /\ n > 60 => ShownLabels(runs[i]) = (0..4) \cup ((n - 5)..(n - 1))

C7_Witness ==
    /\ Len(runs) = 1
    /\ runs[1].complete
    /\ Len(runs[1].file) = 61
    /\ Len(Printed(runs[1])[1].rows) = 10
    /\ Printed(runs[1])[1].rows[2].row.species.s = "Gentoo"
    /\ df[2].species.i = 1

\* Two files with the same sex and the same species in every row.
SamePenguins(f, g) ==
    /\ Len(f) = Len(g)
    /\ \A r \in 1..Len(f) : f[r].sex = g[r].sex /\ f[r].species = g[r].species

\* C8: test rows with the same sex code get the same prediction, and two
\* complete runs on files that differ in no sex and no species predict the same
\* and score the same.
C8_SexOnly ==
    /\ after_score =>
          \A a, b \in 1..Len(X_test) : X_test[a].v = X_test[b].v => y_pred[a] = y_pred[b]
    /\ \A i, j \in 1..Len(runs) :
          (runs[i].complete /\ runs[j].complete /\ SamePenguins(runs[i].file, runs[j].file))
              => /\ runs[i].y_pred = runs[j].y_pred
                 /\ runs[i].accuracy = runs[j].accuracy

C8_Witness ==
    /\ Len(runs) = 2
    /\ runs[1].complete /\ runs[2].complete
    /\ runs[1].file # runs[2].file
    /\ SamePenguins(runs[1].file, runs[2].file)
    /\ Len(runs[2].y_pred) = 2
    /\ X_test[1].v = X_test[2].v
    /\ X_test[1].v # X_train[1].v

\* Two files that differ only in species, and only in test rows of the run.
SameButTestLabels(r, g) ==
    /\ Len(r.file) = Len(g)
    /\ \A k \in 1..Len(g) :
          /\ r.file[k].sex = g[k].sex
          /\ r.file[k].island = g[k].island
          /\ r.file[k].species # g[k].species => (k - 1) \in Range(r.test)

\* C9: the statements of cell 2 take effect in the order recode, split, fit,
\* predict, score; the model is fitted from the training rows and predicts the
\* test rows; and a complete run on a file that differs only in the species of
\* test rows fits the same model and predicts the same.
C9_NoLeak ==
    /\ after_split => encodings >= 1
    /\ after_score =>
          /\ model.classes_ = unique(values(y_train))
          /\ \E e \in optimum :
                e.key = key_of(X_train, y_train) /\ e.weights = model.weights
          /\ y_pred = predict(model, X_test)
    /\ \A i, j \in 1..Len(runs) :
          (runs[i].complete /\ runs[j].complete /\ SameButTestLabels(runs[i], runs[j].file))
              => /\ runs[i].test = runs[j].test
                 /\ runs[i].model = runs[j].model
                 /\ runs[i].y_pred = runs[j].y_pred

\* The codes a freshly read column gets.
CodedOnce(name) == codes(column(read_csv(loaded), name))

\* C10: executing cell 2 again on the table it has already recoded leaves the
\* sex code and the species code of every row as the first execution set them.
C10_Idempotent ==
    /\ (encodings >= 1 /\ "df" \in ns) => column(df, "species") = CodedOnce("species")
    /\ (encodings >= 1 /\ "df" \in ns) => column(df, "sex") = CodedOnce("sex")

====
